---- MODULE Spec2Model ----
(***************************************************************************)
(* A model of http_server.py: a single-threaded HTTP/1.1 file server.      *)
(*                                                                         *)
(* Text is modelled character by character: a str is a sequence of         *)
(* one-character strings, a bytes object a sequence of byte tokens.  An    *)
(* ASCII byte and its character are the same one-character string; the     *)
(* two bytes 0xC3 0xA9 (tokens "xC3", "xA9") are the UTF-8 encoding of the *)
(* one character U+00E9 (token "uE9").                                     *)
(***************************************************************************)
EXTENDS Integers, Sequences, FiniteSets, TLC

(***************************************************************************)
(* Bounds of the model.                                                    *)
(***************************************************************************)
MaxClients == 2

(***************************************************************************)
(* Program constants.                                                      *)
(***************************************************************************)
RecvSize == 1024

ChunkSize == 1024

\* args.folder after the trailing "/" has been added (main, lines 227-229)
root_folder == <<"w", "/">>

CRLF == <<"\r", "\n">>

Terminator == <<"\r", "\n", "\r", "\n">>

SP == <<" ">>

GET == <<"G", "E", "T">>

POST == <<"P", "O", "S", "T">>

PagePath == <<"/", "p", "a", "g", "e", ".", "h", "t", "m", "l">>

NotFoundPath == <<"/", "4", "0", "4", ".", "h", "t", "m", "l">>

Header200 == <<"H", "T", "T", "P", "/", "1", ".", "1", " ", "2", "0", "0", " ", "O", "K", "\r", "\n">>

Header404 == <<"H", "T", "T", "P", "/", "1", ".", "1", " ", "4", "0", "4", " ", "N", "o", "t", " ", "F", "o", "u", "n", "d", "\r", "\n">>

Header405 == <<"H", "T", "T", "P", "/", "1", ".", "1", " ", "4", "0", "5", " ", "M", "e", "t", "h", "o", "d", " ", "N", "o", "t", " ", "A", "l", "l", "o", "w", "e", "d", " ", "\r", "\n">>

Created201 == <<"H", "T", "T", "P", "/", "1", ".", "1", " ", "2", "0", "1", " ", "C", "r", "e", "a", "t", "e", "d", "\r", "\n", "\r", "\n">>

ContentLength == <<"C", "o", "n", "t", "e", "n", "t", "-", "L", "e", "n", "g", "t", "h", ":", " ">>

\* the value None of file_path (line 86)
None == <<"None">>

(***************************************************************************)
(* str and bytes operations of Python, as the code uses them.              *)
(***************************************************************************)
Min(a, b) == IF a < b THEN a ELSE b

\* s[i:] with i counted from 1
From(s, i) == SubSeq(s, i, Len(s))

\* the least index at which pat occurs in s, 0 when it does not (str.find + 1)
Find(s, pat) ==
    LET hits == {i \in 1..(Len(s) - Len(pat) + 1) : SubSeq(s, i, i + Len(pat) - 1) = pat}
    IN  IF hits = {} THEN 0 ELSE CHOOSE i \in hits : \A j \in hits : i <= j

\* pat in s
Contains(s, pat) == Find(s, pat) # 0

\* s.split(sep): the list of the pieces between the occurrences of sep
RECURSIVE split(_, _)
split(s, sep) ==
    LET i == Find(s, sep)
    IN  IF i = 0 THEN <<s>>
        ELSE <<SubSeq(s, 1, i - 1)>> \o split(From(s, i + Len(sep)), sep)

\* s.split(sep, 1): at most one cut, at the first occurrence of sep
split1(s, sep) ==
    LET i == Find(s, sep)
    IN  IF i = 0 THEN <<s>>
        ELSE <<SubSeq(s, 1, i - 1), From(s, i + Len(sep))>>

\* bytes.decode(): strict UTF-8.  A lead byte needs its continuation byte, a
\* continuation byte alone is invalid.
LeadByte == "xC3"

ContByte == "xA9"

WideChar == "uE9"

RECURSIVE decodable(_)
decodable(b) ==
    IF b = <<>> THEN TRUE
    ELSE IF Head(b) = LeadByte
         THEN Len(b) >= 2 /\ b[2] = ContByte /\ decodable(From(b, 3))
         ELSE Head(b) # ContByte /\ decodable(Tail(b))

RECURSIVE decode_valid(_)
decode_valid(b) ==
    IF b = <<>> THEN <<>>
    ELSE IF Head(b) = LeadByte
         THEN <<WideChar>> \o decode_valid(From(b, 3))
         ELSE <<Head(b)>> \o decode_valid(Tail(b))

\* data_buffer.decode(), for a buffer that is decodable; it raises
\* UnicodeDecodeError for one that is not
decode(b) == decode_valid(b)

\* str.encode(): UTF-8
RECURSIVE encode(_)
encode(s) ==
    IF s = <<>> THEN <<>>
    ELSE (IF Head(s) = WideChar THEN <<LeadByte, ContByte>> ELSE <<Head(s)>>)
         \o encode(Tail(s))

\* f"{n}": the decimal digits of a natural number
Digit(d) == <<"0", "1", "2", "3", "4", "5", "6", "7", "8", "9">>[d + 1]

RECURSIVE Str(_)
Str(n) == IF n < 10 THEN <<Digit(n)>> ELSE Str(n \div 10) \o <<Digit(n % 10)>>

(***************************************************************************)
(* The filesystem under the root folder.  The root is a directory with no  *)
(* subdirectories; fs maps the name of each regular file in it to the      *)
(* file's bytes.  A path is resolved as the operating system resolves it:  *)
(* repeated slashes count as one.                                          *)
(***************************************************************************)
RECURSIVE Norm(_)
Norm(p) ==
    IF Len(p) < 2 THEN p
    ELSE IF p[1] = "/" /\ p[2] = "/" THEN Norm(Tail(p))
         ELSE <<Head(p)>> \o Norm(Tail(p))

\* the path below the root folder
Rel(p) == From(Norm(p), Len(root_folder) + 1)

isdir(p) == Rel(p) = <<>>

\* the path names an entry of the root directory itself
InRoot(p) == Rel(p) # <<>> /\ ~Contains(Rel(p), <<"/">>)

\* os.path.isfile
isfile(files, p) == Rel(p) \in DOMAIN files

\* os.path.getsize of a path that names a regular file or the directory (whose
\* size is what the filesystem reports, 4096 on ext4); for a path that names
\* nothing it raises FileNotFoundError
getsize(files, p) == IF isdir(p) THEN 4096 ELSE Len(files[Rel(p)])

(***************************************************************************)
(* The requests the clients send, as bytes.  The server never reads the    *)
(* version token, so a one-character token stands for it.                  *)
(***************************************************************************)
Version == <<"V">>

UpPath == <<"/", "u", "p">>

Req(method, path) == method \o SP \o path \o SP \o Version \o Terminator

R_GetRoot == Req(GET, <<"/">>)

R_GetPage == Req(GET, PagePath)

R_GetUp == Req(GET, UpPath)

\* "//" resolves to the root directory itself
R_GetDir == Req(GET, <<"/", "/">>)

\* a path with a two-byte character
R_GetWide == Req(GET, <<"/", LeadByte, ContByte>>)

R_Put == Req(<<"P", "U", "T">>, <<"/">>)

R_PostUp == Req(POST, UpPath) \o <<"h", "i">>

R_PostWide == Req(POST, UpPath) \o <<LeadByte, ContByte>>

R_PostDir == Req(POST, <<"/">>) \o <<"x">>

R_PostNested == Req(POST, <<"/", "a", "/", "b">>) \o <<"x">>

\* a request line without a version token, and one more header
R_PostBare == POST \o SP \o UpPath \o CRLF \o <<"H", ":", " ", "a">> \o Terminator \o <<"h", "i">>

\* a request line of one token
R_Bad == GET \o Terminator

Singles ==
    {R_GetRoot, R_GetPage, R_GetUp, R_GetDir, R_GetWide, R_Put, R_PostUp,
     R_PostWide, R_PostDir, R_PostNested, R_PostBare, R_Bad}

\* two requests sent one after the other on one connection
Pairs ==
    {R_GetRoot \o R_GetPage, R_GetRoot \o R_Put, R_PostUp \o R_GetUp,
     R_GetPage \o R_PostUp}

\* a POST whose body is not text: a continuation byte that follows no lead byte
R_PostBinary == Req(POST, UpPath) \o <<ContByte>>

\* what a peer has sent when it closes before the end of the header block: a
\* request one byte short of its terminator, and a request followed by the
\* beginning of another
Partials ==
    {SubSeq(R_GetRoot, 1, Len(R_GetRoot) - 1), R_GetRoot \o <<"G">>}

Scripts == Singles \cup Pairs \cup Partials \cup {R_PostBinary}

PageBytes == <<"<", "p", ">", "W", "e", "l", "c", "o", "m", "e", "<", "/", "p", ">">>

NotFoundBytes == <<"N", "o", " ", "f", "i", "l", "e">>

\* the root folder's possible contents when the server starts
InitialFiles ==
    {[n \in names |-> CASE n = Tail(PagePath) -> PageBytes
                        [] n = Tail(NotFoundPath) -> NotFoundBytes
                        [] OTHER -> <<>>] :
        names \in SUBSET {Tail(PagePath), Tail(NotFoundPath), Tail(UpPath)}}

(***************************************************************************)
(* The server's state.                                                     *)
(***************************************************************************)
VARIABLES
    fs,           \* the regular files of the root folder: name -> bytes
    backlog,      \* connections made by clients and not accepted yet
    accepted,     \* connections accepted so far
    closed,       \* accepted connections closed so far (conn.close())
    pc,           \* where run() stands
    wire,         \* bytes the peer sends on the open connection, not received yet
    peerClosed,   \* the peer has closed its end (after its last byte)
    data_buffer,  \* handle_client_request's buffer
    file_path,    \* process_request's file_path, the argument of send_response
    header,       \* process_request's header, the argument of send_response
    f,            \* the bytes of the file send_response holds open, not read yet
    send_num,     \* send_response's counter
    err,          \* the exception handle_client_request caught, "none" if none
    sent,         \* the sendall calls on the open connection, in order
    rcvd,         \* all bytes received on the open connection, in arrival order
    hist,         \* the process_request calls on the open connection, in order
    exit_code     \* the status the process exited with, -1 while it runs

vars ==
    <<fs, backlog, accepted, closed, pc, wire, peerClosed, data_buffer, file_path,
      header, f, send_num, err, sent, rcvd, hist, exit_code>>

conn_vars == <<wire, peerClosed, data_buffer, err, sent, rcvd, hist>>

resp_vars == <<file_path, header, f, send_num>>

listen_vars == <<backlog, accepted, closed, exit_code>>

\* the server after setup_server_socket, before the first accept
Started ==
    /\ backlog = 0
    /\ accepted = 0
    /\ closed = 0
    /\ pc = "accept"
    /\ wire = <<>>
    /\ peerClosed = FALSE
    /\ data_buffer = <<>>
    /\ file_path = None
    /\ header = <<>>
    /\ f = <<>>
    /\ send_num = 0
    /\ err = "none"
    /\ sent = <<>>
    /\ rcvd = <<>>
    /\ hist = <<>>
    /\ exit_code = -1

Init ==
    /\ fs \in InitialFiles
    /\ Started

\* Raise without the handler of lines 152-153: the exception leaves
\* handle_client_request and run, and the process ends
Raise_Uncaught(e) ==
    /\ err' = e
    /\ pc' = "crashed"

\* an exception propagates to handle_client_request's handler, which logs it
\* and returns (lines 152-153)
Raise(e) ==
    /\ err' = e
    /\ pc' = "close"

\* a client connects; the connection waits in the listen queue
Connect ==
    /\ backlog + accepted < MaxClients
    /\ backlog' = backlog + 1
    /\ UNCHANGED <<fs, accepted, closed, exit_code, pc, conn_vars, resp_vars>>

\* run: server_socket.accept() returns, handle_client_request starts with an
\* empty buffer (lines 173-181, 140)
AcceptFrom(scripts) ==
    /\ pc = "accept"
    /\ backlog > 0
    /\ backlog' = backlog - 1
    /\ accepted' = accepted + 1
    /\ \E s \in scripts : wire' = s
    /\ peerClosed' = FALSE
    /\ data_buffer' = <<>>
    /\ err' = "none"
    /\ sent' = <<>>
    /\ rcvd' = <<>>
    /\ hist' = <<>>
    /\ pc' = "recv"
    /\ UNCHANGED <<fs, closed, exit_code, resp_vars>>

Accept == AcceptFrom(Scripts)

\* the peer closes its end once it has nothing more to send
PeerClose ==
    /\ accepted > closed
    /\ wire = <<>>
    /\ ~peerClosed
    /\ peerClosed' = TRUE
    /\ UNCHANGED <<fs, listen_vars, pc, wire, data_buffer, err, sent, rcvd, hist, resp_vars>>

\* Recv with a decoder that waits: a buffer that does not decode is kept and
\* the loop reads on
Recv_KeepReading ==
    /\ pc = "recv"
    /\ wire # <<>>
    /\ \E k \in 1..Min(Len(wire), RecvSize) :
          LET chunk == SubSeq(wire, 1, k)
              buf == data_buffer \o chunk
          IN  /\ wire' = From(wire, k + 1)
              /\ rcvd' = rcvd \o chunk
              /\ data_buffer' = buf
              /\ pc' = IF decodable(buf) /\ Contains(decode(buf), Terminator)
                          THEN "process" ELSE "recv"
              /\ err' = err
    /\ UNCHANGED <<fs, listen_vars, peerClosed, sent, hist, resp_vars>>

\* handle_client_request: conn.recv(1024) returns a chunk, which is appended
\* and the whole buffer decoded and searched (lines 142-148)
Recv ==
    /\ pc = "recv"
    /\ wire # <<>>
    /\ \E k \in 1..Min(Len(wire), RecvSize) :
          LET chunk == SubSeq(wire, 1, k)
              buf == data_buffer \o chunk
          IN  /\ wire' = From(wire, k + 1)
              /\ rcvd' = rcvd \o chunk
              /\ data_buffer' = buf
              /\ IF ~decodable(buf)
                    THEN Raise("UnicodeDecodeError")
                    ELSE /\ pc' = IF Contains(decode(buf), Terminator) THEN "process" ELSE "recv"
                         /\ err' = err
    /\ UNCHANGED <<fs, listen_vars, peerClosed, sent, hist, resp_vars>>

\* RecvEOF with the buffer handed to process_request when the peer closes
RecvEOF_Flush ==
    /\ pc = "recv"
    /\ wire = <<>>
    /\ peerClosed
    /\ pc' = "process"
    /\ UNCHANGED <<fs, listen_vars, conn_vars, resp_vars>>

\* handle_client_request: conn.recv returns nothing, the loop ends (lines 143-144)
RecvEOF ==
    /\ pc = "recv"
    /\ wire = <<>>
    /\ peerClosed
    /\ pc' = "close"
    /\ UNCHANGED <<fs, listen_vars, conn_vars, resp_vars>>

(***************************************************************************)
(* process_request and handle_post_request.                                *)
(***************************************************************************)
\* request.split("\r\n")[0].split(" ") (lines 75-76)
Info(request) == split(split(request, CRLF)[1], SP)

\* Decision with the test of os.path.isfile inverted
Decision_Inverted(method, request_file, files) ==
    IF method # GET THEN <<405, None>>
    ELSE IF request_file = <<"/">> THEN <<200, PagePath>>
    ELSE IF isfile(files, root_folder \o request_file) THEN <<404, NotFoundPath>>
    ELSE <<200, request_file>>

\* the response code and the file path chosen for a request that is not a
\* POST (lines 85-93)
Decision(method, request_file, files) ==
    IF method # GET THEN <<405, None>>
    ELSE IF request_file = <<"/">> THEN <<200, PagePath>>
    ELSE IF ~isfile(files, root_folder \o request_file) THEN <<404, NotFoundPath>>
    ELSE <<200, request_file>>

\* HeaderOf with the test of 404 lost: every code but 200 gets the last header
HeaderOf_No404(code) ==
    IF code = 200 THEN Header200
    ELSE Header405

\* the response header chosen for a code (lines 96-102)
HeaderOf(code) ==
    IF code = 200 THEN Header200
    ELSE IF code = 404 THEN Header404
    ELSE Header405

\* headers and content of a POST (line 50); the request holds the terminator
PostHeaders(request) == split1(request, Terminator)[1]

PostContent(request) == split1(request, Terminator)[2]

\* headers.split(" ")[1] (line 51)
PostFilePath(request) == split(PostHeaders(request), SP)[2]

\* WriteFile with the file opened "ab": the bytes go after those already there
WriteFile_Append(files, p, bytes) ==
    [n \in DOMAIN files \cup {Rel(p)} |->
        IF n # Rel(p) THEN files[n]
        ELSE IF n \in DOMAIN files THEN files[n] \o bytes
        ELSE bytes]

\* open(full_path, "wb") and f.write(bytes) on an entry of the root directory
WriteFile(files, p, bytes) ==
    [n \in DOMAIN files \cup {Rel(p)} |-> IF n = Rel(p) THEN bytes ELSE files[n]]

\* handle_post_request (lines 50-60), then the return to the read loop with a
\* fresh buffer (lines 82, 151)
HandlePost(request) ==
    LET full_path == root_folder \o PostFilePath(request)
    IN  IF isdir(full_path)
          THEN Raise("IsADirectoryError") /\ UNCHANGED <<fs, sent, data_buffer>>
        ELSE IF ~InRoot(full_path)
          THEN Raise("FileNotFoundError") /\ UNCHANGED <<fs, sent, data_buffer>>
        ELSE /\ fs' = WriteFile(fs, full_path, encode(PostContent(request)))
             /\ sent' = Append(sent, encode(Created201))
             /\ data_buffer' = <<>>
             /\ pc' = "recv"
             /\ err' = err

\* process_request (lines 75-102), called with the decoded buffer (line 149)
ProcessRequest ==
    /\ pc = "process"
    /\ LET request == decode(data_buffer)
           info == Info(request)
       IN  /\ hist' = Append(hist, [request |-> request, files |-> fs, resolved |-> fs,
                                    first |-> Len(sent) + 1, upto |-> Len(rcvd)])
           /\ IF Len(info) < 2
                 THEN Raise("ValueError") /\ UNCHANGED <<fs, sent, data_buffer, file_path, header>>
               ELSE IF info[1] = POST
                 THEN HandlePost(request) /\ UNCHANGED <<file_path, header>>
               ELSE /\ file_path' = Decision(info[1], info[2], fs)[2]
                    /\ header' = HeaderOf(Decision(info[1], info[2], fs)[1])
                    /\ pc' = "respond"
                    /\ UNCHANGED <<fs, sent, data_buffer, err>>
    /\ UNCHANGED <<listen_vars, wire, peerClosed, rcvd, f, send_num>>

(***************************************************************************)
(* send_response.                                                          *)
(***************************************************************************)
\* the path names something, so that os.path.getsize does not raise
\* FileNotFoundError
exists(files, p) == isfile(files, p) \/ isdir(p)

\* FullPath without the fallback of lines 20-22
FullPath_NoFallback(files, path) == root_folder \o path

\* the file whose size and bytes are sent (lines 17-22)
FullPath(files, path) ==
    IF exists(files, root_folder \o path) THEN root_folder \o path
    ELSE root_folder \o NotFoundPath

\* the response header sent (line 25)
ResponseHeader(hdr, file_size) == hdr \o ContentLength \o Str(file_size) \o Terminator

\* SendResponse with the header sent before the size is resolved: the status
\* line goes out even when neither file exists
SendResponse_HeaderFirst ==
    /\ pc = "respond"
    /\ IF file_path = None
         THEN Raise("TypeError") /\ UNCHANGED <<sent, f, send_num>>
       ELSE IF ~exists(fs, FullPath(fs, file_path))
         THEN /\ sent' = Append(sent, encode(header))
              /\ Raise("FileNotFoundError")
              /\ UNCHANGED <<f, send_num>>
       ELSE /\ sent' = Append(sent, encode(ResponseHeader(header,
                                      getsize(fs, FullPath(fs, file_path)))))
            /\ IF isdir(FullPath(fs, file_path))
                 THEN Raise("IsADirectoryError") /\ UNCHANGED <<f, send_num>>
                 ELSE /\ f' = fs[Rel(FullPath(fs, file_path))]
                      /\ send_num' = 0
                      /\ pc' = "stream"
                      /\ err' = err
    /\ hist' = [hist EXCEPT ![Len(hist)].resolved = fs]
    /\ UNCHANGED <<fs, listen_vars, wire, peerClosed, data_buffer, rcvd, file_path, header>>

\* send_response up to the opening of the file (lines 17-31); open() of a
\* directory raises IsADirectoryError, after the header has been sent
SendResponse ==
    /\ pc = "respond"
    /\ IF file_path = None
         THEN Raise("TypeError") /\ UNCHANGED <<sent, f, send_num>>
       ELSE IF ~exists(fs, FullPath(fs, file_path))
         THEN Raise("FileNotFoundError") /\ UNCHANGED <<sent, f, send_num>>
       ELSE /\ sent' = Append(sent, encode(ResponseHeader(header,
                                      getsize(fs, FullPath(fs, file_path)))))
            /\ IF isdir(FullPath(fs, file_path))
                 THEN Raise("IsADirectoryError") /\ UNCHANGED <<f, send_num>>
                 ELSE /\ f' = fs[Rel(FullPath(fs, file_path))]
                      /\ send_num' = 0
                      /\ pc' = "stream"
                      /\ err' = err
    /\ hist' = [hist EXCEPT ![Len(hist)].resolved = fs]
    /\ UNCHANGED <<fs, listen_vars, wire, peerClosed, data_buffer, rcvd, file_path, header>>

\* StreamChunk with a buffer that keeps what follows the request answered: a
\* second request already received is dispatched next
StreamChunk_KeepRest ==
    /\ pc = "stream"
    /\ LET file_content == SubSeq(f, 1, Min(Len(f), ChunkSize))
           rest == From(data_buffer, Find(data_buffer, Terminator) + Len(Terminator))
       IN  IF file_content # <<>>
             THEN /\ sent' = Append(sent, file_content)
                  /\ send_num' = send_num + 1
                  /\ f' = From(f, Len(file_content) + 1)
                  /\ UNCHANGED <<pc, data_buffer, file_path, header>>
             ELSE /\ data_buffer' = rest
                  /\ pc' = IF Contains(rest, Terminator) THEN "process" ELSE "recv"
                  /\ file_path' = None
                  /\ header' = <<>>
                  /\ f' = <<>>
                  /\ send_num' = 0
                  /\ sent' = sent
    /\ UNCHANGED <<fs, listen_vars, wire, peerClosed, err, rcvd, hist>>

\* StreamChunk without the f.read(1024) of line 36: the loop sends the first
\* chunk again and again
StreamChunk_NoRead ==
    /\ pc = "stream"
    /\ LET file_content == SubSeq(f, 1, Min(Len(f), ChunkSize))
       IN  IF file_content # <<>>
             THEN /\ sent' = Append(sent, file_content)
                  /\ send_num' = send_num + 1
                  /\ UNCHANGED <<f, pc, data_buffer, file_path, header>>
             ELSE /\ data_buffer' = <<>>
                  /\ pc' = "recv"
                  /\ file_path' = None
                  /\ header' = <<>>
                  /\ f' = <<>>
                  /\ send_num' = 0
                  /\ sent' = sent
    /\ UNCHANGED <<fs, listen_vars, wire, peerClosed, err, rcvd, hist>>

\* StreamChunk with a break after process_request: the read loop ends once a
\* response has been sent
StreamChunk_Break ==
    /\ pc = "stream"
    /\ LET file_content == SubSeq(f, 1, Min(Len(f), ChunkSize))
       IN  IF file_content # <<>>
             THEN /\ sent' = Append(sent, file_content)
                  /\ send_num' = send_num + 1
                  /\ f' = From(f, Len(file_content) + 1)
                  /\ UNCHANGED <<pc, data_buffer, file_path, header>>
             ELSE /\ data_buffer' = <<>>
                  /\ pc' = "close"
                  /\ file_path' = None
                  /\ header' = <<>>
                  /\ f' = <<>>
                  /\ send_num' = 0
                  /\ sent' = sent
    /\ UNCHANGED <<fs, listen_vars, wire, peerClosed, err, rcvd, hist>>

\* one turn of the loop that sends the file (lines 31-36); when f.read returns
\* nothing send_response and process_request return and the read loop goes on
\* with a fresh buffer (line 151)
StreamChunk ==
    /\ pc = "stream"
    /\ LET file_content == SubSeq(f, 1, Min(Len(f), ChunkSize))
       IN  IF file_content # <<>>
             THEN /\ sent' = Append(sent, file_content)
                  /\ send_num' = send_num + 1
                  /\ f' = From(f, Len(file_content) + 1)
                  /\ UNCHANGED <<pc, data_buffer, file_path, header>>
             ELSE /\ data_buffer' = <<>>
                  /\ pc' = "recv"
                  /\ file_path' = None
                  /\ header' = <<>>
                  /\ f' = <<>>
                  /\ send_num' = 0
                  /\ sent' = sent
    /\ UNCHANGED <<fs, listen_vars, wire, peerClosed, err, rcvd, hist>>

\* Close without conn.close(): the listener goes back to accept and the
\* connection stays open
Close_Leak ==
    /\ pc = "close"
    /\ pc' = "accept"
    /\ UNCHANGED <<fs, listen_vars, conn_vars, resp_vars>>

\* run: handle_client_request has returned, conn.close() (lines 184-185)
Close ==
    /\ pc = "close"
    /\ closed' = closed + 1
    /\ pc' = "accept"
    /\ wire' = <<>>
    /\ peerClosed' = FALSE
    /\ data_buffer' = <<>>
    /\ file_path' = None
    /\ header' = <<>>
    /\ f' = <<>>
    /\ send_num' = 0
    /\ err' = "none"
    /\ sent' = <<>>
    /\ rcvd' = <<>>
    /\ hist' = <<>>
    /\ UNCHANGED <<fs, backlog, accepted, exit_code>>

Next ==
    \/ Connect
    \/ Accept
    \/ PeerClose
    \/ Recv
    \/ RecvEOF
    \/ ProcessRequest
    \/ SendResponse
    \/ StreamChunk
    \/ Close

Spec == Init /\ [][Next]_vars

(***************************************************************************)
(* The server beside a process that removes the file process_request chose *)
(* between the choice (os.path.isfile, line 88) and send_response's         *)
(* os.path.getsize (line 18).                                              *)
(***************************************************************************)
RemoveFile ==
    /\ pc = "respond"
    /\ file_path # None
    /\ isfile(fs, root_folder \o file_path)
    /\ fs' = [m \in DOMAIN fs \ {Rel(root_folder \o file_path)} |-> fs[m]]
    /\ UNCHANGED <<listen_vars, pc, conn_vars, resp_vars>>

NextFS ==
    \/ Next
    \/ RemoveFile

SpecFS == Init /\ [][NextFS]_vars

(***************************************************************************)
(* The server with the failures of the socket and the interrupt of the     *)
(* process: recv or sendall raises an OSError inside the try of           *)
(* handle_client_request; Ctrl-C raises KeyboardInterrupt, which is not an *)
(* Exception and reaches the handler of run (lines 188-190).               *)
(***************************************************************************)
\* conn.recv raises (line 142)
RecvError ==
    /\ pc = "recv"
    /\ Raise("ConnectionResetError")
    /\ UNCHANGED <<fs, listen_vars, wire, peerClosed, data_buffer, sent, rcvd, hist, resp_vars>>

\* conn.sendall raises while the file is streamed (line 35)
SendError ==
    /\ pc = "stream"
    /\ Raise("BrokenPipeError")
    /\ UNCHANGED <<fs, listen_vars, wire, peerClosed, data_buffer, sent, rcvd, hist, resp_vars>>

\* Interrupt with the handler of lines 188-190 lost: the traceback ends the
\* process with status 1
Interrupt_Status1 ==
    /\ pc \notin {"exited", "crashed"}
    /\ pc' = "exited"
    /\ exit_code' = 1
    /\ backlog' = 0
    /\ closed' = accepted
    /\ wire' = <<>>
    /\ peerClosed' = FALSE
    /\ data_buffer' = <<>>
    /\ file_path' = None
    /\ header' = <<>>
    /\ f' = <<>>
    /\ send_num' = 0
    /\ err' = "none"
    /\ sent' = <<>>
    /\ rcvd' = <<>>
    /\ hist' = <<>>
    /\ UNCHANGED <<fs, accepted>>

\* KeyboardInterrupt anywhere in the loop of run: sys.exit(0) (lines 188-190);
\* the process and its sockets are gone, the files stay
Interrupt ==
    /\ pc \notin {"exited", "crashed"}
    /\ pc' = "exited"
    /\ exit_code' = 0
    /\ backlog' = 0
    /\ closed' = accepted
    /\ wire' = <<>>
    /\ peerClosed' = FALSE
    /\ data_buffer' = <<>>
    /\ file_path' = None
    /\ header' = <<>>
    /\ f' = <<>>
    /\ send_num' = 0
    /\ err' = "none"
    /\ sent' = <<>>
    /\ rcvd' = <<>>
    /\ hist' = <<>>
    /\ UNCHANGED <<fs, accepted>>

NextInt ==
    \/ Next
    \/ RecvError
    \/ SendError
    \/ Interrupt

SpecInt == Init /\ [][NextInt]_vars

(***************************************************************************)
(* The server over a root folder that holds one file, of a size around the *)
(* multiples of the chunk size, which every client asks for.  The loop of  *)
(* send_response runs in the server's only thread, so that a turn that can *)
(* be taken is taken.                                                      *)
(***************************************************************************)
BigPath == <<"/", "b">>

R_GetBig == Req(GET, BigPath)

BigSizes ==
    {0, 1, ChunkSize - 1, ChunkSize, ChunkSize + 1, 2 * ChunkSize, 2 * ChunkSize + 1}

\* n bytes that tell their place in the file
BigBytes(n) == [i \in 1..n |-> Digit(i % 10)]

InitBig ==
    /\ \E n \in BigSizes : fs = (Rel(root_folder \o BigPath) :> BigBytes(n))
    /\ Started

NextBig ==
    \/ Connect
    \/ AcceptFrom({R_GetBig})
    \/ PeerClose
    \/ Recv
    \/ RecvEOF
    \/ ProcessRequest
    \/ SendResponse
    \/ StreamChunk
    \/ Close

SpecBig == InitBig /\ [][NextBig]_vars /\ WF_vars(StreamChunk)

(***************************************************************************)
(* What can be observed of the open connection.                            *)
(***************************************************************************)
StartsWith(s, prefix) == Len(s) >= Len(prefix) /\ SubSeq(s, 1, Len(prefix)) = prefix

RECURSIVE Flat(_)
Flat(ss) == IF ss = <<>> THEN <<>> ELSE Head(ss) \o Flat(Tail(ss))

\* the i-th process_request call has returned or raised
Finished(i) == i < Len(hist) \/ pc \notin {"respond", "stream"}

\* the sendall calls made by the i-th process_request call
Sends(i) ==
    SubSeq(sent, hist[i].first, IF i < Len(hist) THEN hist[i + 1].first - 1 ELSE Len(sent))

\* the bytes the i-th process_request call sent
Response(i) == Flat(Sends(i))

\* the bytes received between the (i-1)-th and the i-th process_request call
RawRequest(i) == SubSeq(rcvd, (IF i = 1 THEN 0 ELSE hist[i - 1].upto) + 1, hist[i].upto)

\* the files as the i-th process_request call left them
FilesAfter(i) == IF i < Len(hist) THEN hist[i + 1].files ELSE fs

\* the i-th request has a method and a path
HasLine(i) == Len(Info(hist[i].request)) >= 2

Method(i) == Info(hist[i].request)[1]

Path(i) == Info(hist[i].request)[2]

\* the response to a GET that serves the bytes of a file under a status line
FileResponse(status_line, bytes) ==
    status_line \o ContentLength \o Str(Len(bytes)) \o Terminator \o bytes

\* the paths the clients ask for
AskedPaths ==
    {<<"/">>, PagePath, NotFoundPath, UpPath, <<"/", "/">>, <<"/", WideChar>>}

\* the filesystem contract: page.html and 404.html are files of the root folder
Contract(files) ==
    /\ isfile(files, root_folder \o PagePath)
    /\ isfile(files, root_folder \o NotFoundPath)

\* the i-th request has a method and a path, and the path of a POST names an
\* entry of the root directory, not the directory itself
Plain(i) ==
    /\ HasLine(i)
    /\ Method(i) = POST => InRoot(root_folder \o Path(i))

StatusStart == <<"H", "T", "T", "P", "/", "1", ".", "1", " ">>

\* the status lines among the sendall calls of the i-th process_request call
NumStatus(i) ==
    Cardinality({k \in 1..Len(Sends(i)) : StartsWith(Sends(i)[k], StatusStart)})

(***************************************************************************)
(* The claims.                                                             *)
(***************************************************************************)
\* C1 (as claimed): every request whose method is neither GET nor POST is
\* answered with the status line "HTTP/1.1 405 Method Not Allowed \r\n" and
\* no body.  The code raises TypeError in send_response (root_folder + None)
\* and sends nothing.
C1_MethodNotAllowed ==
    \A i \in 1..Len(hist) :
        (Finished(i) /\ HasLine(i) /\ Method(i) \notin {GET, POST})
            => /\ StartsWith(Response(i), Header405)
               /\ Len(Sends(i)) = 1

\* C2: a GET whose path names an existing regular file F is answered with
\* "HTTP/1.1 200 OK", a Content-Length equal to F's size and a body equal to
\* F's bytes.
C2_GetExistingFile ==
    \A i \in 1..Len(hist) :
        \A n \in DOMAIN hist[i].files :
            (Finished(i) /\ StartsWith(hist[i].request, GET \o SP \o <<"/">> \o n \o SP))
                => /\ Response(i) = FileResponse(Header200, hist[i].files[n])
                   /\ (i = Len(hist) => err = "none")

\* C2's case: a GET for a file that is not empty has been answered
C2_Witness ==
    \E i \in 1..Len(hist) :
        \E n \in DOMAIN hist[i].files :
            /\ Finished(i)
            /\ StartsWith(hist[i].request, GET \o SP \o <<"/">> \o n \o SP)
            /\ hist[i].files[n] # <<>>
            /\ Len(Sends(i)) = 2

\* C3 (as claimed): in every filesystem state the response to GET / is the
\* response to GET /page.html.  With page.html missing the code answers GET /
\* with 200 and GET /page.html with 404.
C3_RootIsPage ==
    \A i, j \in 1..Len(hist) :
        ( /\ Finished(i) /\ Finished(j)
          /\ StartsWith(hist[i].request, GET \o SP \o <<"/">> \o SP)
          /\ StartsWith(hist[j].request, GET \o SP \o PagePath \o SP)
          /\ hist[i].files = hist[j].files )
            => Response(i) = Response(j)

\* C4 (as claimed): every GET whose path, other than "/", names no regular
\* file is answered with 404 Not Found, the size of 404.html and its bytes.
\* With 404.html missing the code sends nothing.
C4_Original ==
    \A i \in 1..Len(hist) :
        \A p \in AskedPaths \ {<<"/">>} :
            ( /\ Finished(i)
              /\ StartsWith(hist[i].request, GET \o SP \o p \o SP)
              /\ ~isfile(hist[i].files, root_folder \o p) )
                => /\ isfile(hist[i].files, root_folder \o NotFoundPath)
                   /\ Response(i) =
                          FileResponse(Header404, hist[i].files[Rel(root_folder \o NotFoundPath)])

\* C4 (amended): when 404.html is a regular file of the root folder, every
\* GET whose path, other than "/", names no regular file is answered with
\* 404 Not Found, the size of 404.html and its bytes.
C4_NotFound ==
    \A i \in 1..Len(hist) :
        \A p \in AskedPaths \ {<<"/">>} :
            ( /\ Finished(i)
              /\ StartsWith(hist[i].request, GET \o SP \o p \o SP)
              /\ ~isfile(hist[i].files, root_folder \o p)
              /\ isfile(hist[i].files, root_folder \o NotFoundPath) )
                => /\ Response(i) =
                          FileResponse(Header404, hist[i].files[Rel(root_folder \o NotFoundPath)])
                   /\ (i = Len(hist) => err = "none")

\* C4's case: a GET for a missing file, and one for the root directory, has
\* been answered while 404.html exists
C4_Witness ==
    \E i \in 1..Len(hist) :
        /\ Finished(i)
        /\ StartsWith(hist[i].request, GET \o SP \o <<"/", "/">> \o SP)
        /\ isfile(hist[i].files, root_folder \o NotFoundPath)
        /\ Len(Sends(i)) = 2

\* C5 (as claimed): after a POST whose terminator was detected the file at
\* root+path exists and holds exactly the body bytes, and the response is
\* exactly "HTTP/1.1 201 Created" and an empty line.  The code takes the path
\* from the second space-separated token of the whole header block, not of
\* the request line.  (Stated for the complete requests whose path names an
\* entry of the root directory; the code cannot write to the directory itself.)
C5_PostWritesFile ==
    \A i \in 1..Len(hist) :
        (Finished(i) /\ RawRequest(i) \in Singles /\ Plain(i) /\ Method(i) = POST)
            => /\ isfile(FilesAfter(i), root_folder \o Path(i))
               /\ FilesAfter(i)[Rel(root_folder \o Path(i))] =
                      From(RawRequest(i), Find(RawRequest(i), Terminator) + Len(Terminator))
               /\ Sends(i) = <<Created201>>

\* C6 (as claimed): however the bytes of a request are split across reads,
\* nothing is dispatched before the terminator has been received, the text
\* dispatched is the concatenation of the chunks received, and a request whose
\* terminator the peer sends is dispatched.  The code decodes the buffer after
\* every read and gives the connection up when a read ends inside a character.
C6_SplitAssembled ==
    /\ \A i \in 1..Len(hist) :
          /\ Contains(RawRequest(i), Terminator)
          /\ hist[i].request = decode(RawRequest(i))
    /\ (pc = "close" /\ Contains(rcvd \o wire, Terminator)) => Len(hist) >= 1

\* C7: at most one accepted connection is open at any time, and the listener
\* is at accept exactly when no accepted connection is open.
C7_Sequential ==
    /\ accepted - closed \in {0, 1}
    /\ (pc = "accept") <=> (accepted = closed)

\* C7's case: a second client waits in the listen queue while the response to
\* the first is being sent
C7_Witness ==
    /\ backlog > 0
    /\ accepted > closed
    /\ pc = "stream"
    /\ sent # <<>>

\* C8 (as claimed): once the response to the first request has been sent the
\* server closes the connection without waiting for the peer and dispatches
\* nothing more on it.  The code resets the buffer and reads again.
C8_Original ==
    /\ Len(hist) >= 1 => pc # "recv"
    /\ Len(hist) <= 1

\* C8 (amended): the server leaves the read loop, and so closes the
\* connection, only when the peer has closed its end (zero-length read) or an
\* error was raised; after a response it reads again on the same connection.
C8_ClosesOnEofOrError ==
    /\ pc = "close" => (err # "none" \/ (peerClosed /\ wire = <<>>))
    /\ (pc = "recv" /\ hist # <<>>) => (err = "none" /\ accepted > closed)

\* C8's case: two requests were answered on one connection, which the server
\* leaves once the peer has closed
C8_Witness ==
    /\ pc = "close"
    /\ err = "none"
    /\ Len(hist) = 2
    /\ Sends(1) # <<>>
    /\ Sends(2) # <<>>

\* C9 (as claimed): every process_request call writes exactly one status
\* line.  A call for a method other than GET and POST raises before its first
\* sendall and writes none (see C1).  (Stated for the requests with a method
\* and a path under the filesystem contract; a call also writes none for a
\* malformed request line, a missing 404.html or a POST to the directory.)
C9_OneResponse ==
    \A i \in 1..Len(hist) :
        (Finished(i) /\ Plain(i) /\ Contract(hist[i].files)) => NumStatus(i) = 1

\* C10 (as claimed): a second complete request that arrives after the first
\* was answered is dispatched on its own and gets its own response.  A second
\* request with a method other than GET and POST gets none (see C1).  (Stated
\* for the requests with a method and a path under the filesystem contract.)
C10_SecondRequest ==
    /\ pc = "recv" =>
          data_buffer = From(rcvd, (IF hist = <<>> THEN 0 ELSE hist[Len(hist)].upto) + 1)
    /\ \A i \in 2..Len(hist) :
          ( /\ Finished(i)
            /\ RawRequest(i - 1) \in Singles
            /\ RawRequest(i) \in Singles
            /\ Plain(i)
            /\ Contract(hist[i].files) )
              => /\ hist[i].request = decode(RawRequest(i))
                 /\ Sends(i) # <<>>
                 /\ hist[i].first > Len(Sends(i - 1))

\* the server leaves "close" only by conn.close(), after which it is at accept
\* again with the files as they were
ClosedThenAccept ==
    (pc = "close" /\ pc' # "close")
        => (pc' = "accept" /\ closed' = closed + 1 /\ accepted' = accepted /\ fs' = fs)

\* C11: a terminated request whose first line has fewer than two tokens raises
\* an error that the handler catches: the call sends nothing, reads and writes
\* no file, the handler returns, and the server's next step closes the
\* connection and is back at accept.
C11_MalformedLine ==
    /\ [](\A i \in 1..Len(hist) :
            (Finished(i) /\ ~HasLine(i))
                => /\ Sends(i) = <<>>
                   /\ FilesAfter(i) = hist[i].files
                   /\ fs = hist[i].files
                   /\ f = <<>>
                   /\ i = Len(hist)
                   /\ err = "ValueError"
                   /\ pc = "close"
                   /\ accepted = closed + 1)
    /\ [][ClosedThenAccept]_vars

\* C11's case: a request line of one token was dispatched while another client
\* waits in the listen queue
C11_Witness ==
    /\ hist # <<>>
    /\ ~HasLine(Len(hist))
    /\ err = "ValueError"
    /\ pc = "close"
    /\ backlog > 0

\* the file a GET of path p asks for
Target(p) == IF p = <<"/">> THEN PagePath ELSE p

\* the i-th request is a GET of something that is not there, in a root that has
\* no 404.html either
BothMissing(i) ==
    /\ HasLine(i)
    /\ Method(i) = GET
    /\ ~exists(hist[i].files, root_folder \o Target(Path(i)))
    /\ ~exists(hist[i].files, root_folder \o NotFoundPath)

\* C12: a GET whose target is missing while 404.html is missing too ends in a
\* FileNotFoundError that the handler catches: not one byte is sent, no file
\* is opened or changed, the handler returns, and the server's next step closes
\* the connection and is back at accept.
C12_FallbackMissing ==
    /\ [](\A i \in 1..Len(hist) :
            (Finished(i) /\ BothMissing(i))
                => /\ Sends(i) = <<>>
                   /\ FilesAfter(i) = hist[i].files
                   /\ f = <<>>
                   /\ i = Len(hist)
                   /\ err = "FileNotFoundError"
                   /\ pc = "close"
                   /\ accepted = closed + 1)
    /\ [][(pc = "close" /\ err = "FileNotFoundError") => ClosedThenAccept]_vars

\* C12's case: a GET of a missing file in a root without 404.html has been
\* handled while another client waits in the listen queue
C12_Witness ==
    /\ hist # <<>>
    /\ BothMissing(Len(hist))
    /\ Path(Len(hist)) = PagePath
    /\ pc = "close"
    /\ backlog > 0

\* the bytes received since the last process_request call
Pending == From(rcvd, (IF hist = <<>> THEN 0 ELSE hist[Len(hist)].upto) + 1)

\* C13: when the peer closes before a terminator has been received the read
\* loop ends without an error: the bytes of the buffer are never handed to
\* process_request, the end of the loop sends nothing and writes nothing, and
\* the server's next step closes the connection and is back at accept.
C13_EarlyClose ==
    /\ []((pc = "close" /\ err = "none")
            => /\ peerClosed
               /\ wire = <<>>
               /\ data_buffer = Pending
               /\ ~Contains(data_buffer, Terminator)
               /\ accepted = closed + 1)
    /\ [](\A i \in 1..Len(hist) : Contains(RawRequest(i), Terminator))
    /\ [](hist = <<>> => sent = <<>>)
    /\ [][(hist' = hist) => (fs' = fs)]_vars
    /\ [][(pc = "recv" /\ pc' = "close" /\ err' = "none") => UNCHANGED <<fs, sent, hist, err>>]_vars
    /\ [][(pc = "close" /\ err = "none") => ClosedThenAccept]_vars

\* C13's case: the peer has closed after a request and one byte of the next,
\* and another client waits in the listen queue
C13_Witness ==
    /\ pc = "close"
    /\ err = "none"
    /\ rcvd = R_GetRoot \o <<"G">>
    /\ data_buffer = <<"G">>
    /\ Len(hist) = 1
    /\ backlog > 0

\* C13's case on a connection that never sent a terminator
C13_WitnessFirst ==
    /\ pc = "close"
    /\ err = "none"
    /\ rcvd = SubSeq(R_GetRoot, 1, Len(R_GetRoot) - 1)
    /\ hist = <<>>

\* process_request chose 200 for the i-th request because the file it names
\* existed, and the file was gone when send_response resolved its size
RemovedInBetween(i) ==
    /\ HasLine(i)
    /\ Method(i) = GET
    /\ Path(i) # <<"/">>
    /\ isfile(hist[i].files, root_folder \o Path(i))
    /\ ~exists(hist[i].resolved, root_folder \o Path(i))

\* C14 as stated: whenever the file is removed in between, the response is
\* 200 OK over the size and the bytes of 404.html.
C14_Original ==
    \A i \in 1..Len(hist) :
        (Finished(i) /\ RemovedInBetween(i))
            => /\ isfile(hist[i].resolved, root_folder \o NotFoundPath)
               /\ Response(i) = FileResponse(Header200, hist[i].resolved[Rel(root_folder \o NotFoundPath)])

\* C14: when the file is removed in between and 404.html is there when the
\* size is resolved, the response is 200 OK over the size and the bytes of
\* 404.html; when 404.html is gone too nothing is sent; and every response
\* send_response writes starts with the status line process_request chose.
C14_StaleStatus ==
    \A i \in 1..Len(hist) :
        /\ (Finished(i) /\ RemovedInBetween(i))
              => IF isfile(hist[i].resolved, root_folder \o NotFoundPath)
                   THEN Response(i) = FileResponse(Header200,
                                        hist[i].resolved[Rel(root_folder \o NotFoundPath)])
                   ELSE Sends(i) = <<>> /\ err = "FileNotFoundError"
        /\ (HasLine(i) /\ Method(i) # POST /\ Sends(i) # <<>>)
              => StartsWith(Sends(i)[1],
                            HeaderOf(Decision(Method(i), Path(i), hist[i].files)[1]) \o ContentLength)

\* C14's case: page.html was there at the choice and gone at the resolution,
\* and the response, complete, is 200 OK over the bytes of 404.html
C14_Witness ==
    /\ Len(hist) = 1
    /\ Finished(1)
    /\ RemovedInBetween(1)
    /\ Path(1) = PagePath
    /\ Response(1) = FileResponse(Header200, NotFoundBytes)

\* the bytes that follow the first terminator among those of the i-th request
Body(i) == From(RawRequest(i), Find(RawRequest(i), Terminator) + Len(Terminator))

\* the i-th process_request call raised
Raised(i) == i = Len(hist) /\ err # "none"

\* C15: a POST that does not raise writes one file, whose content is exactly
\* the bytes that followed the first terminator in the buffer when the
\* terminator was found, and sends 201 at once; the file keeps that content
\* while later bytes arrive, and those bytes gather in the fresh buffer like
\* the beginning of a new request.
C15_BodyAtDetection ==
    /\ \A i \in 1..Len(hist) :
          (Finished(i) /\ HasLine(i) /\ Method(i) = POST /\ ~Raised(i))
              => /\ \E n \in DOMAIN FilesAfter(i) :
                       /\ FilesAfter(i)[n] = Body(i)
                       /\ \A m \in DOMAIN FilesAfter(i) \ {n} :
                             m \in DOMAIN hist[i].files /\ FilesAfter(i)[m] = hist[i].files[m]
                 /\ Sends(i) = <<encode(Created201)>>
    /\ pc = "recv" => data_buffer = Pending

\* C15's case: the header block and the first body byte of a POST arrived
\* together, the second body byte afterwards
C15_Witness ==
    /\ Len(hist) = 1
    /\ RawRequest(1) = Req(POST, UpPath) \o <<"h">>
    /\ isfile(fs, root_folder \o UpPath)
    /\ fs[Rel(root_folder \o UpPath)] = <<"h">>
    /\ sent = <<encode(Created201)>>
    /\ data_buffer = <<"i">>
    /\ pc = "recv"

\* C16: the whole buffer is decoded after every read, so the read loop goes on
\* only with a buffer that decodes; a read that leaves the buffer undecodable
\* raises UnicodeDecodeError: that buffer is never handed to process_request,
\* from then on nothing is sent, dispatched or written, and the server's next
\* step closes the connection and is back at accept, whatever bytes the peer
\* still had to send.
C16_UndecodableBuffer ==
    /\ [](pc \in {"recv", "process"} => decodable(data_buffer))
    /\ [](err = "UnicodeDecodeError"
            => /\ pc = "close"
               /\ ~decodable(data_buffer)
               /\ data_buffer = Pending
               /\ accepted = closed + 1)
    /\ [][~decodable(data_buffer')
            => (err' = "UnicodeDecodeError" /\ UNCHANGED <<fs, sent, hist>>)]_vars
    /\ [][(pc = "close" /\ err = "UnicodeDecodeError") => ClosedThenAccept]_vars

\* C16's case: a read ended between the two bytes of a character, before any
\* dispatch, and the bytes still to come would have completed a request
C16_Witness ==
    /\ err = "UnicodeDecodeError"
    /\ hist = <<>>
    /\ sent = <<>>
    /\ wire # <<>>
    /\ decodable(rcvd \o wire)
    /\ Contains(rcvd \o wire, Terminator)
    /\ backlog > 0

\* C16's case with a body that is not text
C16_WitnessBinary ==
    /\ err = "UnicodeDecodeError"
    /\ rcvd = R_PostBinary
    /\ hist = <<>>
    /\ sent = <<>>
    /\ ~isfile(fs, root_folder \o UpPath)

\* ceil(n / ChunkSize)
Chunks(n) == (n + ChunkSize - 1) \div ChunkSize

\* the sends of the i-th call are the header with the file's size and then the
\* file's bytes in order, ChunkSize at a time
InChunks(i) ==
    LET F == hist[i].files[Rel(root_folder \o Path(i))]
        n == Len(F)
        sends == Sends(i)
    IN  /\ sends # <<>> => sends[1] = encode(ResponseHeader(Header200, n))
        /\ \A k \in 2..Len(sends) :
              /\ sends[k] = SubSeq(F, ChunkSize * (k - 2) + 1, Min(ChunkSize * (k - 1), n))
              /\ Len(sends[k]) \in 1..ChunkSize
              /\ k < Len(sends) => Len(sends[k]) = ChunkSize
        /\ Len(sends) <= 1 + Chunks(n)
        /\ Finished(i) => Len(sends) = 1 + Chunks(n)
        /\ (i = Len(hist) /\ pc = "stream")
              => /\ send_num = Len(sends) - 1
                 /\ f = From(F, ChunkSize * send_num + 1)

\* C17: for a file of n bytes the header with Content-Length n is sent first,
\* then the body in exactly ceil(n/1024) sends in file order, each of 1024
\* bytes but possibly the last; the counter is 0 before the first send and
\* goes up by one with every body send, to ceil(n/1024); an empty file has no
\* body send; and the loop that streams the file ends.
C17_Streaming ==
    /\ [](\A i \in 1..Len(hist) : isfile(hist[i].files, root_folder \o Path(i)) => InChunks(i))
    /\ [][(pc = "stream" /\ sent' # sent)
            => (send_num' = send_num + 1 /\ Len(sent') = Len(sent) + 1 /\ send_num' <= Chunks(Len(fs[Rel(root_folder \o file_path)])))]_vars
    /\ (pc = "stream") ~> (pc = "recv")

\* C17's case: a file of two chunks and one byte has been sent in three sends
C17_Witness ==
    /\ Len(hist) = 1
    /\ Finished(1)
    /\ Len(fs[Rel(root_folder \o BigPath)]) = 2 * ChunkSize + 1
    /\ Len(Sends(1)) = 4
    /\ Len(Sends(1)[4]) = 1
    /\ Sends(1)[3] = SubSeq(fs[Rel(root_folder \o BigPath)], ChunkSize + 1, 2 * ChunkSize)

\* C17's case of the empty file: the response is complete after the header
C17_WitnessEmpty ==
    /\ Len(hist) = 1
    /\ fs[Rel(root_folder \o BigPath)] = <<>>
    /\ Len(sent) = 1
    /\ pc = "recv"

\* the first of the two requests that the i-th call was handed together
FirstOf(i) == CHOOSE a \in Singles : \E b \in Singles : RawRequest(i) = a \o b

\* the second of them
SecondOf(i) == CHOOSE b \in Singles : RawRequest(i) = FirstOf(i) \o b

\* C18: when a buffer that holds two complete requests is dispatched, the
\* call acts on the first request line only: it writes at most one response,
\* that of the first request (for a GET of an existing file, 200 OK over that
\* file; for a POST, 201 after the second request's bytes went into the file
\* with the body); no other call follows for these bytes, and the buffer the
\* loop goes on with holds none of them.
C18_SecondDiscarded ==
    \A i \in 1..Len(hist) :
        (Finished(i) /\ RawRequest(i) \in Pairs)
            => /\ Method(i) = Info(decode(FirstOf(i)))[1]
               /\ Path(i) = Info(decode(FirstOf(i)))[2]
               /\ NumStatus(i) <= 1
               /\ (Method(i) = GET /\ isfile(hist[i].files, root_folder \o Target(Path(i))))
                     => Response(i) = FileResponse(Header200,
                                          hist[i].files[Rel(root_folder \o Target(Path(i)))])
               /\ (Method(i) = POST /\ ~Raised(i))
                     => /\ Sends(i) = <<encode(Created201)>>
                        /\ FilesAfter(i)[Rel(root_folder \o Path(i))]
                              = <<"h", "i">> \o SecondOf(i)
               /\ i = Len(hist)
               /\ Pending = <<>>
               /\ wire = <<>>
               /\ pc \in {"recv", "close"}
               /\ data_buffer = <<>> \/ Raised(i)

\* C18's case: two GETs arrived in one read; the first was answered and the
\* loop waits with an empty buffer
C18_Witness ==
    /\ Len(hist) = 1
    /\ RawRequest(1) = R_GetRoot \o R_GetPage
    /\ sent # <<>>
    /\ Response(1) = FileResponse(Header200, PageBytes)
    /\ data_buffer = <<>>
    /\ pc = "recv"

\* C18's case with a POST first: the GET that followed it is in the file
C18_WitnessPost ==
    /\ Len(hist) = 1
    /\ RawRequest(1) = R_PostUp \o R_GetUp
    /\ fs[Rel(root_folder \o UpPath)] = <<"h", "i">> \o R_GetUp
    /\ data_buffer = <<>>
    /\ pc = "recv"

\* the places of a server that runs
Running == {"accept", "recv", "process", "respond", "stream", "close"}

\* C19: an error raised while reading, decoding, parsing or responding is
\* caught: whenever one has been raised the handler has returned and the
\* server is about to close the connection, and from there it goes back to
\* accept; the server stops running only by the interrupt, and then its exit
\* status is 0.
C19_LoopSurvivesErrors ==
    /\ [](err # "none" => (pc = "close" /\ accepted = closed + 1 /\ exit_code = -1))
    /\ [][pc = "close"
            => \/ pc' = "close"
               \/ pc' = "accept" /\ closed' = closed + 1 /\ err' = "none"
               \/ Interrupt]_vars
    /\ [][(pc \in Running /\ pc' \notin Running) => Interrupt]_vars
    /\ [](pc \notin Running => (pc = "exited" /\ exit_code = 0))
    /\ [](pc \in Running <=> exit_code = -1)

\* C19's case: the first connection has been closed, the second ended in an
\* error of the socket after a response was begun, and a third client waits
C19_Witness ==
    /\ closed = 1
    /\ accepted = 2
    /\ err = "BrokenPipeError"
    /\ sent # <<>>
    /\ pc = "close"

\* C19's case of the interrupt: the server exited after it had served
C19_WitnessExit ==
    /\ pc = "exited"
    /\ exit_code = 0
    /\ accepted = 2

\* the files that the i-th call created, removed or changed
Changed(i) ==
    {n \in DOMAIN FilesAfter(i) \cup DOMAIN hist[i].files :
        \/ n \notin DOMAIN FilesAfter(i)
        \/ n \notin DOMAIN hist[i].files
        \/ FilesAfter(i)[n] # hist[i].files[n]}

\* C20 (as claimed): a call for a request that is not a POST changes no file,
\* and a call for a POST changes at most the file at root + path, path being
\* the second token of the request line.  The code takes the POST's file name
\* from the second space-separated token of the whole header block (see C5),
\* so a request line without a version token makes it write another file.
C20_OnlyPostWrites ==
    \A i \in 1..Len(hist) :
        Finished(i)
            => IF HasLine(i) /\ Method(i) = POST
                 THEN Changed(i) \subseteq {Rel(root_folder \o Path(i))}
                 ELSE Changed(i) = {}

\* what does hold of the writes: only a POST changes a file, and it changes at
\* most one
C20_AtMostOneFile ==
    \A i \in 1..Len(hist) :
        Finished(i)
            => IF HasLine(i) /\ Method(i) = POST
                 THEN Cardinality(Changed(i)) <= 1
                 ELSE Changed(i) = {}

====
